---------------------------- MODULE Spec2Model ----------------------------
(***************************************************************************)
(* A model of app.py, the resistor-combination calculator: the value table *)
(* STANDARD_RESISTORS, calculate_combination_value, find_combinations, the *)
(* ranking closure process_results, the 'Find Combinations' handler, the   *)
(* results section and display_results_cards with its 'Show More' button.  *)
(*                                                                         *)
(* Python evaluates  /  on numbers, and every operation with a float       *)
(* operand, in IEEE-754 binary64 with round-to-nearest-even.  The model    *)
(* computes these operations exactly as the interpreter does: a float is a *)
(* record [m, e] standing for m * 2^e, with m an arbitrary-precision       *)
(* natural number, and every operation rounds its exact result to 53 bits. *)
(***************************************************************************)
EXTENDS Integers, Sequences, FiniteSets, TLC

(***************************************************************************)
(* Arbitrary-precision naturals: a sequence of limbs, least significant    *)
(* first, with no zero limb at the top (so equal numbers are equal         *)
(* sequences).  The limb base keeps every intermediate product below 2^31. *)
(***************************************************************************)
LimbBits == 15

LimbBase == 2^LimbBits

Min(a, b) == IF a <= b THEN a ELSE b

Max(a, b) == IF a >= b THEN a ELSE b

\* a without the zero limbs at its top
BNorm(a) ==
    LET nz == {i \in 1..Len(a) : a[i] # 0}
    IN  IF nz = {} THEN <<>>
        ELSE SubSeq(a, 1, CHOOSE i \in nz : \A j \in nz : j <= i)

Limb(a, i) == IF i >= 1 /\ i <= Len(a) THEN a[i] ELSE 0

\* an int 0 <= n < 2^31 as a natural
IntToBig(n) ==
    BNorm(<<n % LimbBase, (n \div LimbBase) % LimbBase, n \div (LimbBase * LimbBase)>>)

\* the carry into limb i of a + b: some lower limb generates one and every limb
\* between passes it on
AddCarry(a, b, i) ==
    IF \E j \in 1..(i - 1) :
          /\ Limb(a, j) + Limb(b, j) >= LimbBase
          /\ \A k \in (j + 1)..(i - 1) : Limb(a, k) + Limb(b, k) = LimbBase - 1
    THEN 1 ELSE 0

\* (<<>> \o f makes the function f an explicit tuple)
BAdd(a, b) ==
    BNorm(<<>> \o [i \in 1..(Max(Len(a), Len(b)) + 1) |->
                     (Limb(a, i) + Limb(b, i) + AddCarry(a, b, i)) % LimbBase])

\* the borrow from limb i of a - b
SubBorrow(a, b, i) ==
    IF \E j \in 1..(i - 1) :
          /\ Limb(a, j) < Limb(b, j)
          /\ \A k \in (j + 1)..(i - 1) : Limb(a, k) = Limb(b, k)
    THEN 1 ELSE 0

\* a - b for a >= b
BSub(a, b) ==
    BNorm(<<>> \o [i \in 1..Len(a) |->
                     (a[i] - Limb(b, i) - SubBorrow(a, b, i) + LimbBase) % LimbBase])

\* -1, 0, 1 as a < b, a = b, a > b
BCmp(a, b) ==
    IF Len(a) > Len(b) THEN 1
    ELSE IF Len(a) < Len(b) THEN -1
    ELSE LET df == {i \in 1..Len(a) : a[i] # b[i]}
         IN  IF df = {} THEN 0
             ELSE LET i == CHOOSE i \in df : \A j \in df : j <= i
                  IN  IF a[i] > b[i] THEN 1 ELSE -1

\* a * k for 0 <= k < LimbBase: the low halves of the limb products plus the
\* high halves one limb up
BMulSmall(a, k) ==
    IF k = 0 \/ Len(a) = 0 THEN <<>>
    ELSE BAdd(<<>> \o [i \in 1..Len(a) |-> (a[i] * k) % LimbBase],
              <<0>> \o [i \in 1..Len(a) |-> (a[i] * k) \div LimbBase])

BShlLimbs(a, n) ==
    IF Len(a) = 0 \/ n = 0 THEN a
    ELSE <<>> \o [i \in 1..(n + Len(a)) |-> IF i <= n THEN 0 ELSE a[i - n]]

\* a * 2^bits
BShl(a, bits) ==
    IF bits = 0 THEN a
    ELSE BShlLimbs(IF bits % LimbBits = 0 THEN a ELSE BMulSmall(a, 2^(bits % LimbBits)),
                   bits \div LimbBits)

\* a \div 2^bits
BShr(a, bits) ==
    LET n   == bits \div LimbBits
        p   == 2^(bits % LimbBits)
        q   == 2^(LimbBits - (bits % LimbBits))
        len == Len(a) - n
    IN  IF bits = 0 THEN a
        ELSE IF len <= 0 THEN <<>>
        ELSE BNorm(<<>> \o [i \in 1..len |->
                               (a[i + n] \div p) + (Limb(a, i + n + 1) % p) * q])

RECURSIVE BMulAt(_, _, _)
BMulAt(a, b, i) ==
    IF i > Len(b) THEN <<>>
    ELSE BAdd(BShlLimbs(BMulSmall(a, b[i]), i - 1), BMulAt(a, b, i + 1))

BMul(a, b) == BMulAt(a, b, 1)

\* the number of bits of 0 <= x < LimbBase
BitLenInt(x) == CHOOSE k \in 0..LimbBits : x < 2^k /\ (k = 0 \/ x >= 2^(k - 1))

BBitLen(a) == IF Len(a) = 0 THEN 0 ELSE LimbBits * (Len(a) - 1) + BitLenInt(a[Len(a)])

\* bit k (from 0) of a
BBit(a, k) == (Limb(a, (k \div LimbBits) + 1) \div 2^(k % LimbBits)) % 2

\* some bit of a below bit k is set
BLowNonZero(a, k) ==
    \/ \E i \in 1..Min(k \div LimbBits, Len(a)) : a[i] # 0
    \/ (Limb(a, (k \div LimbBits) + 1) % 2^(k % LimbBits)) # 0

\* the number of trailing zero bits of a > 0
BTrailingZeros(a) ==
    LET i == CHOOSE i \in 1..Len(a) : a[i] # 0 /\ \A j \in 1..(i - 1) : a[j] = 0
        t == CHOOSE t \in 0..(LimbBits - 1) : a[i] % 2^(t + 1) # 0 /\ a[i] % 2^t = 0
    IN  LimbBits * (i - 1) + t

\* the largest d <= q0 with b * d <= r
RECURSIVE BFixDigit(_, _, _)
BFixDigit(r, b, q0) ==
    IF BCmp(BMulSmall(b, q0), r) = 1 THEN BFixDigit(r, b, q0 - 1) ELSE q0

\* long division, one limb of a per step from the top limb down to limb 1; b has
\* its top bit set; q and r are the quotient limbs and the remainder of the
\* limbs above limb i.  <<quotient limbs, remainder>>
RECURSIVE BDivStep(_, _, _, _, _)
BDivStep(a, b, i, q, r) ==
    IF i = 0 THEN <<q, r>>
    ELSE LET r1  == BNorm(<<a[i]>> \o r)
             n   == Len(b)
             est == (Limb(r1, n + 1) * LimbBase + Limb(r1, n)) \div b[n]
             d   == BFixDigit(r1, b, Min(est, LimbBase - 1))
         IN  IF Len(r1) < n THEN BDivStep(a, b, i - 1, <<0>> \o q, r1)
             ELSE BDivStep(a, b, i - 1, <<d>> \o q, BSub(r1, BMulSmall(b, d)))

\* <<a \div b, whether b divides a>> for b > 0
BDivExact(a, b) ==
    LET s  == LimbBits - BitLenInt(b[Len(b)])
        sa == BShl(a, s)
        qr == BDivStep(sa, BShl(b, s), Len(sa), <<>>, <<>>)
    IN  <<BNorm(qr[1]), Len(qr[2]) = 0>>

(***************************************************************************)
(* Python floats (IEEE-754 binary64).  A float >= 0 is [m |-> M, e |-> E]  *)
(* for the value M * 2^E with M odd, or M = <<>>, E = 0 for 0.0; the       *)
(* values the program computes never leave the normal range.               *)
(***************************************************************************)
MantissaBits == 53

FloatZero == [m |-> <<>>, e |-> 0]

FloatCanon(n, e) ==
    IF Len(n) = 0 THEN FloatZero
    ELSE LET tz == BTrailingZeros(n) IN [m |-> BShr(n, tz), e |-> e + tz]

\* n * 2^e rounded to 53 significant bits, ties to even
FloatRound(n, e) ==
    LET len == BBitLen(n)
    IN  IF len <= MantissaBits THEN FloatCanon(n, e)
        ELSE LET sh == len - MantissaBits
                 q  == BShr(n, sh)
                 up == /\ BBit(n, sh - 1) = 1
                       /\ (BLowNonZero(n, sh - 1) \/ BBit(q, 0) = 1)
             IN  FloatCanon(IF up THEN BAdd(q, <<1>>) ELSE q, e + sh)

\* float(n) for an int 0 <= n < 2^31
float(n) == FloatCanon(IntToBig(n), 0)

\* x + y
float_add(x, y) ==
    IF Len(x.m) = 0 THEN y
    ELSE IF Len(y.m) = 0 THEN x
    ELSE LET e == Min(x.e, y.e)
         IN  FloatRound(BAdd(BShl(x.m, x.e - e), BShl(y.m, y.e - e)), e)

\* -1, 0, 1 as x < y, x = y, x > y
float_cmp(x, y) ==
    IF Len(x.m) = 0 \/ Len(y.m) = 0
    THEN (IF Len(x.m) # 0 THEN 1 ELSE IF Len(y.m) # 0 THEN -1 ELSE 0)
    ELSE LET tx == BBitLen(x.m) + x.e
             ty == BBitLen(y.m) + y.e
             e  == Min(x.e, y.e)
         IN  IF tx > ty THEN 1
             ELSE IF tx < ty THEN -1
             ELSE BCmp(BShl(x.m, x.e - e), BShl(y.m, y.e - e))

\* abs(x - y)
float_abs_sub(x, y) ==
    IF Len(x.m) = 0 THEN y
    ELSE IF Len(y.m) = 0 THEN x
    ELSE LET e  == Min(x.e, y.e)
             bx == BShl(x.m, x.e - e)
             by == BShl(y.m, y.e - e)
         IN  FloatRound(IF BCmp(bx, by) >= 0 THEN BSub(bx, by) ELSE BSub(by, bx), e)

\* x * y
float_mul(x, y) ==
    IF Len(x.m) = 0 \/ Len(y.m) = 0 THEN FloatZero
    ELSE FloatRound(BMul(x.m, y.m), x.e + y.e)

\* x / y; every use has y > 0 (the callers guard the divisor as the code does)
float_div(x, y) ==
    IF Len(x.m) = 0 \/ Len(y.m) = 0 THEN FloatZero
    ELSE LET need == Max(0, MantissaBits + 3 + BBitLen(y.m) - BBitLen(x.m))
             k    == LimbBits * ((need + LimbBits - 1) \div LimbBits)
             qe   == BDivExact(BShl(x.m, k), y.m)
         IN  IF qe[2] THEN FloatRound(qe[1], x.e - y.e - k)
             ELSE FloatRound(BAdd(BMulSmall(qe[1], 2), <<1>>), x.e - y.e - k - 1)

(***************************************************************************)
(* The module-level constants of app.py.                                   *)
(***************************************************************************)
\* a variant of E12_VALUES with the value 100 among the base values
E12_VALUES_and_100 == <<10, 12, 15, 18, 22, 27, 33, 39, 47, 56, 68, 82, 100>>

E12_VALUES == <<10, 12, 15, 18, 22, 27, 33, 39, 47, 56, 68, 82>>

\* range(7) in the comprehension that builds the table
DecadeCount == 7

MAX_RESISTORS_IN_COMBO == 4

RESULTS_INCREMENT == 5

\* the selectbox option "Automatic", beside the options 1, 2, 3, 4 (written as
\* an int, which can be compared with the other options)
Automatic == 0

\* [j * 10**i for i in range(7) for j in E12_VALUES], decade by decade
TableComprehension ==
    <<>> \o [k \in 1..(DecadeCount * Len(E12_VALUES)) |->
                E12_VALUES[((k - 1) % Len(E12_VALUES)) + 1]
                    * 10^((k - 1) \div Len(E12_VALUES))]

\* sorted(xs) for a list of ints: the stable sort puts xs[i] behind every
\* smaller element and every equal element that precedes it
sorted(xs) ==
    LET pos(i) == Cardinality({j \in 1..Len(xs) :
                                  xs[j] < xs[i] \/ (xs[j] = xs[i] /\ j < i)}) + 1
    IN  <<>> \o [p \in 1..Len(xs) |-> xs[CHOOSE i \in 1..Len(xs) : pos(i) = p]]

\* the value STANDARD_RESISTORS is bound to when the script is loaded
StandardResistorsBuilt == sorted(TableComprehension)

(***************************************************************************)
(* calculate_combination_value.  An int result (a series sum, the 0 of the *)
(* degenerate cases) is written as the float equal to it: every int the    *)
(* program forms is below 2^53, so the conversion is exact and comparisons *)
(* and arithmetic with it give what Python gives for the int.              *)
(***************************************************************************)
RECURSIVE SumInts(_, _)
SumInts(resistors, n) ==
    IF n = 0 THEN 0 ELSE SumInts(resistors, n - 1) + resistors[n]

\* the sum of the first n floats of xs: from the int 0, left to right
RECURSIVE SumFloats(_, _)
SumFloats(xs, n) ==
    IF n = 0 THEN FloatZero ELSE float_add(SumFloats(xs, n - 1), xs[n])

\* sum(1 / r for r in resistors)
SumReciprocals(resistors) ==
    SumFloats(<<>> \o [i \in 1..Len(resistors) |->
                          float_div(float(1), float(resistors[i]))],
              Len(resistors))

calculate_combination_value(resistors, mode) ==
    IF Len(resistors) = 0 THEN FloatZero
    ELSE IF mode = "series" THEN float(SumInts(resistors, Len(resistors)))
    ELSE IF mode = "parallel"
         THEN IF \E i \in 1..Len(resistors) : resistors[i] = 0 THEN FloatZero
              ELSE float_div(float(1), SumReciprocals(resistors))
    ELSE FloatZero

(***************************************************************************)
(* find_combinations.                                                      *)
(***************************************************************************)
\* itertools.combinations_with_replacement(pool, n), restricted to the tuples
\* whose first element is at index i or later: the non-decreasing index
\* tuples in lexicographic order
RECURSIVE CombinationsFrom(_, _, _)
CombinationsFrom(pool, n, i) ==
    IF n = 0 THEN <<(<<>>)>>
    ELSE IF i > Len(pool) THEN <<>>
    ELSE LET rest == CombinationsFrom(pool, n - 1, i)
         IN  (<<>> \o [k \in 1..Len(rest) |-> <<pool[i]>> \o rest[k]])
                 \o CombinationsFrom(pool, n, i + 1)

combinations_with_replacement(pool, n) == CombinationsFrom(pool, n, 1)

\* r <= target * (1 + tolerance)
in_search_space(r, target, tolerance) ==
    float_cmp(float(r), float_mul(target, float_add(float(1), tolerance))) <= 0

\* a variant of within_tolerance whose comparison is strict
within_tolerance_strict(total_resistance, target, tolerance) ==
    /\ float_cmp(target, FloatZero) > 0
    /\ float_cmp(float_div(float_abs_sub(total_resistance, target), target),
                 tolerance) < 0

\* target > 0 and abs(total_resistance - target) / target <= tolerance
within_tolerance(total_resistance, target, tolerance) ==
    /\ float_cmp(target, FloatZero) > 0
    /\ float_cmp(float_div(float_abs_sub(total_resistance, target), target),
                 tolerance) <= 0

\* a variant of count_range that tries every size whatever the option
count_range_every_size(num_resistors_option) ==
    <<>> \o [k \in 1..MAX_RESISTORS_IN_COMBO |-> k]

\* range(1, MAX_RESISTORS_IN_COMBO + 1) if num_resistors_option == "Automatic"
\* else [num_resistors_option]
count_range(num_resistors_option) ==
    IF num_resistors_option = Automatic
    THEN <<>> \o [k \in 1..MAX_RESISTORS_IN_COMBO |-> k]
    ELSE <<num_resistors_option>>

search_space(table, target, tolerance, mode) ==
    IF mode = "series"
    THEN SelectSeq(table, LAMBDA r : in_search_space(r, target, tolerance))
    ELSE table

\* the tuples the loop over count_range visits, from the k-th count on
RECURSIVE CandidatesFrom(_, _, _)
CandidatesFrom(pool, counts, k) ==
    IF k > Len(counts) THEN <<>>
    ELSE combinations_with_replacement(pool, counts[k])
             \o CandidatesFrom(pool, counts, k + 1)

\* the tuples the generator yields, in the order it yields them; table is the
\* global STANDARD_RESISTORS the function reads
find_combinations(table, target, tolerance, mode, num_resistors_option) ==
    SelectSeq(CandidatesFrom(search_space(table, target, tolerance, mode),
                             count_range(num_resistors_option), 1),
              LAMBDA combo :
                  within_tolerance(calculate_combination_value(combo, mode),
                                   target, tolerance))

(***************************************************************************)
(* The closure process_results of the 'Find Combinations' handler.         *)
(*                                                                         *)
(* 'for combo in set(combos)' visits the distinct tuples of combos in the  *)
(* order the set yields them, which Python leaves unspecified: the closure *)
(* is modelled for a given order, a sequence that lists every element of   *)
(* set(combos) once, and its callers choose the order nondeterministically.*)
(***************************************************************************)
\* set(combos): tuples are equal when they have the same elements in the same
\* positions
set(combos) == {combos[i] : i \in 1..Len(combos)}

\* the sequences that list every element of the set S once
Orderings(S) ==
    LET n == Cardinality(S)
    IN  {<<>> \o f : f \in {g \in [1..n -> S] : \A i, j \in 1..n : i # j => g[i] # g[j]}}

\* -1, 0, 1 as xs < ys, xs = ys, xs > ys in the lexicographic order of tuples
tuple_cmp(xs, ys) ==
    LET df == {i \in 1..Min(Len(xs), Len(ys)) : xs[i] # ys[i]}
    IN  IF df = {}
        THEN (IF Len(xs) < Len(ys) THEN -1 ELSE IF Len(xs) > Len(ys) THEN 1 ELSE 0)
        ELSE LET i == CHOOSE i \in df : \A j \in df : i <= j
             IN  IF xs[i] < ys[i] THEN -1 ELSE 1

\* the elements of S in increasing lexicographic order
Ascending(S) ==
    LET n == Cardinality(S)
        rank(x) == Cardinality({y \in S : tuple_cmp(y, x) < 0}) + 1
    IN  <<>> \o [p \in 1..n |-> CHOOSE x \in S : rank(x) = p]

Reversed(xs) == <<>> \o [i \in 1..Len(xs) |-> xs[Len(xs) + 1 - i]]

\* error = abs(val - target_val) / target_val * 100
percent_error(val, target_val) ==
    float_mul(float_div(float_abs_sub(val, target_val), target_val), float(100))

\* the dict appended for one combo
result_entry(combo, mode, target_val) ==
    LET val == calculate_combination_value(combo, mode)
    IN  [combo |-> combo, value |-> val, error |-> percent_error(val, target_val)]

\* (x['error'], len(x['combo'])) of a sorts before that of b
key_less(a, b) ==
    LET c == float_cmp(a.error, b.error)
    IN  c < 0 \/ (c = 0 /\ Len(a.combo) < Len(b.combo))

\* a variant of sorted_by_key that leaves the list as it is
not_sorted(results) == results

\* sorted(results, key=lambda x: (x['error'], len(x['combo']))): stable, so
\* entries with equal keys keep the order they have in results
sorted_by_key(results) ==
    LET n == Len(results)
        before(j, i) == \/ key_less(results[j], results[i])
                        \/ (~key_less(results[i], results[j]) /\ j < i)
        pos == <<>> \o [i \in 1..n |-> Cardinality({j \in 1..n : before(j, i)}) + 1]
    IN  <<>> \o [p \in 1..n |-> results[CHOOSE i \in 1..n : pos[i] = p]]

process_results(order, mode, target_val) ==
    sorted_by_key(<<>> \o [i \in 1..Len(order) |->
                              result_entry(order[i], mode, target_val)])

(***************************************************************************)
(* parse_resistance is called by the handler but defined in no file of the *)
(* repository; it is modelled from its description: a magnitude string,    *)
(* decimal point optional, optionally suffixed with k, M or G (10^3, 10^6, *)
(* 10^9, case-insensitive), optional leading and trailing whitespace, is   *)
(* mapped to a real, anything else to None.  A string is the sequence of   *)
(* its characters.                                                         *)
(***************************************************************************)
None == [none |-> TRUE]

DigitChars == <<"0", "1", "2", "3", "4", "5", "6", "7", "8", "9">>

IsDigit(c) == \E d \in 1..Len(DigitChars) : DigitChars[d] = c

DigitValue(c) == (CHOOSE d \in 1..Len(DigitChars) : DigitChars[d] = c) - 1

\* s.strip()
strip(s) ==
    LET ns == {i \in 1..Len(s) : s[i] # " "}
    IN  IF ns = {} THEN <<>>
        ELSE SubSeq(s, CHOOSE i \in ns : \A j \in ns : i <= j,
                       CHOOSE i \in ns : \A j \in ns : j <= i)

\* the exponent of the power of ten a suffix character stands for
SuffixExponent(c) ==
    IF c \in {"k", "K"} THEN 3
    ELSE IF c \in {"m", "M"} THEN 6
    ELSE IF c \in {"g", "G"} THEN 9
    ELSE 0

\* the int the first n digit characters of ds spell
RECURSIVE DigitsToInt(_, _)
DigitsToInt(ds, n) ==
    IF n = 0 THEN 0 ELSE DigitsToInt(ds, n - 1) * 10 + DigitValue(ds[n])

parse_resistance(s) ==
    LET t      == strip(s)
        suffix == IF Len(t) > 0 THEN SuffixExponent(t[Len(t)]) ELSE 0
        num    == IF suffix > 0 THEN SubSeq(t, 1, Len(t) - 1) ELSE t
        points == {i \in 1..Len(num) : num[i] = "."}
        digits == SelectSeq(num, IsDigit)
        point  == IF points = {} THEN Len(num) ELSE CHOOSE i \in points : TRUE
    IN  IF \/ Len(digits) = 0
           \/ Cardinality(points) > 1
           \/ Len(digits) + Cardinality(points) # Len(num)
        THEN None
        ELSE float_mul(float_div(float(DigitsToInt(digits, Len(digits))),
                                 float(10^(Len(num) - point))),
                       float(10^suffix))

(***************************************************************************)
(* The state.  The session state and the widget values persist from one    *)
(* run of the script to the next; screen is what the last run rendered.    *)
(***************************************************************************)
VARIABLES
    STANDARD_RESISTORS,      \* the module-level table
    results_calculated,      \* st.session_state
    series_results,
    parallel_results,
    num_to_display,
    num_to_display_setting,  \* the widgets
    target_str,
    tolerance_percent,
    num_resistors_option,
    screen,                  \* the elements the last run of the script rendered
    invoked,                 \* the calls of the search the last run made
    tabulated,               \* the values of the search, request by request
    pc, args, ret            \* a single call of one function: its position,
                             \* its arguments and what it returned

vars ==
    <<STANDARD_RESISTORS, results_calculated, series_results, parallel_results,
      num_to_display, num_to_display_setting, target_str, tolerance_percent,
      num_resistors_option, screen, invoked, tabulated, pc, args, ret>>

session_vars == <<results_calculated, series_results, parallel_results, num_to_display>>

widget_vars == <<num_to_display_setting, target_str, tolerance_percent, num_resistors_option>>

call_vars == <<pc, args, ret>>

\* The search enumerates tuples over the first TableBound values of the table.
TableBound == 6

SearchedTable == SubSeq(STANDARD_RESISTORS, 1, TableBound)

\* A set of up to MaxEnumeratedSet elements may yield them in any order; of a
\* larger one the increasing and the decreasing order are followed.
MaxEnumeratedSet == 4

iteration_orders(S) ==
    IF Cardinality(S) <= MaxEnumeratedSet THEN Orderings(S)
    ELSE {Ascending(S), Reversed(Ascending(S))}

\* process_results(list(find_combinations(...)), mode): the lists it can return
search_outcomes(table, target_val, tolerance, mode, option) ==
    LET combos == find_combinations(table, target_val, tolerance, mode, option)
    IN  {process_results(order, mode, target_val) : order \in iteration_orders(set(combos))}

(***************************************************************************)
(* The page.  Every interaction with a widget reruns the script from the   *)
(* top with the session state and the widget values as they stand; an      *)
(* action is one such run (two, when the run ends in st.rerun()).          *)
(***************************************************************************)
\* the texts typed into 'Target Resistance': the default "10k", one that is no
\* magnitude, zero, and two targets among the values of the searched table
TargetStrings ==
    {<<"1", "0", "k">>, <<"a", "b", "c">>, <<"0">>, <<"3", "0">>, <<" ", "1", "2">>}

\* the slider positions used, in steps of 0.1 from 0.1 to 20.0: 1.0 (the
\* default) and 20.0
SliderSteps == {10, 200}

\* the float the slider returns at a step
slider_value(step) == float_div(float(step), float(10))

\* the options picked in 'Number of Resistors', of "Automatic", 1, 2, 3, 4
CountChoices == {Automatic, 2}

\* the values entered in 'Initial results to show': the minimum and the default
DisplaySettings == {3, 5}

\* a variant of first_results that keeps every result
every_result(results, n) == results

\* results[:num_to_display]
first_results(results, n) == SubSeq(results, 1, Min(n, Len(results)))

\* display_results_cards: the cards it renders and whether it renders the
\* 'Show More' button
display_results_cards(results, n) ==
    IF Len(results) = 0 THEN [cards |-> <<>>, more |-> FALSE]
    ELSE [cards |-> first_results(results, n), more |-> Len(results) > n]

\* what a run renders below the inputs: the error of the handler, if any, and
\* the results section
render(message, calculated, series, parallel, n) ==
    [message  |-> message,
     results  |-> calculated,
     series   |-> IF calculated THEN display_results_cards(series, n)
                  ELSE [cards |-> <<>>, more |-> FALSE],
     parallel |-> IF calculated THEN display_results_cards(parallel, n)
                  ELSE [cards |-> <<>>, more |-> FALSE]]

\* the arguments the handler can pass to the search
Requests ==
    {<<parse_resistance(t), float_div(slider_value(p), float(100)), mode, c>> :
        t \in {u \in TargetStrings : parse_resistance(u) # None},
        p \in SliderSteps, mode \in {"series", "parallel"}, c \in CountChoices}

Tabulation(table) ==
    [r \in {q \in Requests : float_cmp(q[1], FloatZero) > 0} |->
        search_outcomes(table, r[1], r[2], r[3], r[4])]

NoCall == [fn |-> "none"]

\* the page when the script has run for the first time in a session
PageInit ==
    /\ STANDARD_RESISTORS = StandardResistorsBuilt
    /\ results_calculated = FALSE
    /\ series_results = <<>>
    /\ parallel_results = <<>>
    /\ num_to_display = 5
    /\ num_to_display_setting = 5
    /\ target_str = <<"1", "0", "k">>
    /\ tolerance_percent = slider_value(10)
    /\ num_resistors_option = Automatic
    /\ screen = render("", FALSE, <<>>, <<>>, 5)
    /\ invoked = <<>>

Init ==
    /\ PageInit
    /\ tabulated = Tabulation(SearchedTable)
    /\ pc = "page"
    /\ args = NoCall
    /\ ret = NoCall

\* a run of the script in which no button is pressed
Rerun ==
    /\ screen' = render("", results_calculated, series_results, parallel_results,
                        num_to_display)
    /\ invoked' = <<>>
    /\ UNCHANGED <<STANDARD_RESISTORS, session_vars, tabulated, call_vars>>

EditTarget(s) ==
    /\ s # target_str
    /\ target_str' = s
    /\ UNCHANGED <<num_to_display_setting, tolerance_percent, num_resistors_option>>
    /\ Rerun

MoveSlider(step) ==
    /\ slider_value(step) # tolerance_percent
    /\ tolerance_percent' = slider_value(step)
    /\ UNCHANGED <<num_to_display_setting, target_str, num_resistors_option>>
    /\ Rerun

SelectCount(c) ==
    /\ c # num_resistors_option
    /\ num_resistors_option' = c
    /\ UNCHANGED <<num_to_display_setting, target_str, tolerance_percent>>
    /\ Rerun

EnterSetting(n) ==
    /\ n # num_to_display_setting
    /\ num_to_display_setting' = n
    /\ UNCHANGED <<target_str, tolerance_percent, num_resistors_option>>
    /\ Rerun

\* a variant of RejectTarget that leaves results_calculated as it is
RejectTargetKeepingResults(message) ==
    /\ UNCHANGED <<results_calculated, series_results, parallel_results, num_to_display>>
    /\ invoked' = <<>>

\* the branches of the handler that reject the target: st.error(message) and
\* results_calculated = False
RejectTarget(message) ==
    /\ results_calculated' = FALSE
    /\ UNCHANGED <<series_results, parallel_results, num_to_display>>
    /\ invoked' = <<>>

\* the branch of the handler that searches.  The two calls of process_results
\* return one of the lists tabulated for their arguments.
RunSearch(target_val) ==
    LET tolerance == float_div(tolerance_percent, float(100))
        call(fn, mode) == [fn |-> fn, target |-> target_val, tolerance |-> tolerance,
                          mode |-> mode, num_resistors_option |-> num_resistors_option]
    IN  /\ series_results' \in
               tabulated[<<target_val, tolerance, "series", num_resistors_option>>]
        /\ parallel_results' \in
               tabulated[<<target_val, tolerance, "parallel", num_resistors_option>>]
        /\ num_to_display' = num_to_display_setting
        /\ results_calculated' = TRUE
        /\ invoked' = <<call("find_combinations", "series"),
                        call("process_results", "series"),
                        call("find_combinations", "parallel"),
                        call("process_results", "parallel")>>

\* the message of the handler's st.error for a parsed target, "" when it is
\* accepted
target_error(target_val) ==
    IF target_val = None THEN "Invalid resistance format."
    ELSE IF float_cmp(target_val, FloatZero) <= 0
         THEN "Please enter a resistance value greater than zero."
    ELSE ""

\* a click on 'Find Combinations': the handler, then the results section
ClickFind ==
    LET target_val == parse_resistance(target_str)
        message    == target_error(target_val)
    IN  /\ IF message # "" THEN RejectTarget(message) ELSE RunSearch(target_val)
        /\ screen' = render(message, results_calculated', series_results',
                            parallel_results', num_to_display')
        /\ UNCHANGED <<STANDARD_RESISTORS, widget_vars, tabulated, call_vars>>

\* a click on the 'Show More' button of a tab, which exists when the last run
\* rendered it: num_to_display += RESULTS_INCREMENT, st.rerun(), and the run
\* that follows renders the page
ClickShowMore(mode) ==
    /\ IF mode = "series" THEN screen.series.more ELSE screen.parallel.more
    /\ num_to_display' = num_to_display + RESULTS_INCREMENT
    /\ screen' = render("", results_calculated, series_results, parallel_results,
                        num_to_display')
    /\ invoked' = <<>>
    /\ UNCHANGED <<STANDARD_RESISTORS, results_calculated, series_results,
                   parallel_results, widget_vars, tabulated, call_vars>>

Next ==
    \/ \E s \in TargetStrings : EditTarget(s)
    \/ \E step \in SliderSteps : MoveSlider(step)
    \/ \E c \in CountChoices : SelectCount(c)
    \/ \E n \in DisplaySettings : EnterSetting(n)
    \/ ClickFind
    \/ ClickShowMore("series")
    \/ ClickShowMore("parallel")

Spec == Init /\ [][Next]_vars

\* the 'Show More' buttons are clicked for as long as they are offered
FairSpec ==
    /\ Spec
    /\ WF_vars(ClickShowMore("series"))
    /\ WF_vars(ClickShowMore("parallel"))

\* C6 as stated: the table is strictly increasing, its elements are > 0, and it
\* holds exactly the 84 values d * 10^i for d in {1.0, 1.2, 1.5, 1.8, 2.2, 2.7,
\* 3.3, 3.9, 4.7, 5.6, 6.8, 8.2} and i in 0..6, from 1.0 to 8.2 * 10^6 (ten
\* times the values are compared, which keeps them integers).
C6_TableFromOneOhm ==
    /\ \A k \in 1..(Len(STANDARD_RESISTORS) - 1) :
          STANDARD_RESISTORS[k] < STANDARD_RESISTORS[k + 1]
    /\ \A k \in 1..Len(STANDARD_RESISTORS) : STANDARD_RESISTORS[k] > 0
    /\ Len(STANDARD_RESISTORS) = 84
    /\ {10 * STANDARD_RESISTORS[k] : k \in 1..Len(STANDARD_RESISTORS)}
           = {d * 10^i : d \in {10, 12, 15, 18, 22, 27, 33, 39, 47, 56, 68, 82},
                         i \in 0..6}
    /\ 10 * STANDARD_RESISTORS[1] = 10
    /\ 10 * STANDARD_RESISTORS[Len(STANDARD_RESISTORS)] = 82000000

\* C6, amended: in every state the table is strictly increasing, its elements
\* are > 0, and it holds exactly the 84 values d * 10^i for d in {10, 12, 15,
\* 18, 22, 27, 33, 39, 47, 56, 68, 82} and i in 0..6, from 10 to 82 * 10^6; it is
\* therefore the same table in every state, whatever operations have run.
C6_TableFromTenOhm ==
    /\ \A k \in 1..(Len(STANDARD_RESISTORS) - 1) :
          STANDARD_RESISTORS[k] < STANDARD_RESISTORS[k + 1]
    /\ \A k \in 1..Len(STANDARD_RESISTORS) : STANDARD_RESISTORS[k] > 0
    /\ Len(STANDARD_RESISTORS) = 84
    /\ {STANDARD_RESISTORS[k] : k \in 1..Len(STANDARD_RESISTORS)}
           = {d * 10^i : d \in {10, 12, 15, 18, 22, 27, 33, 39, 47, 56, 68, 82},
                         i \in 0..6}
    /\ STANDARD_RESISTORS[1] = 10
    /\ STANDARD_RESISTORS[Len(STANDARD_RESISTORS)] = 82000000

\* the table after a search has stored results and 'Show More' has been clicked
C6_Witness ==
    /\ results_calculated
    /\ Len(series_results) > 0
    /\ num_to_display > num_to_display_setting
    /\ STANDARD_RESISTORS[1] = 10
    /\ STANDARD_RESISTORS[84] = 82000000

\* the parsed target is None or <= 0
TargetRejected ==
    \/ parse_resistance(target_str) = None
    \/ float_cmp(parse_resistance(target_str), FloatZero) <= 0

\* C8: a click on 'Find Combinations' whose parsed target is None or <= 0
\* invokes neither find_combinations nor process_results, leaves
\* results_calculated false, whatever an earlier search stored, and the run
\* does not render the results section; the section is rendered only when
\* results_calculated holds, and every invocation of the search has a
\* target > 0.
C8_RejectedTargetNeverSearched ==
    /\ [][(ClickFind /\ TargetRejected) =>
              /\ invoked' = <<>>
              /\ results_calculated' = FALSE
              /\ screen'.results = FALSE
              /\ screen'.series.cards = <<>> /\ screen'.parallel.cards = <<>>
              /\ series_results' = series_results
              /\ parallel_results' = parallel_results]_vars
    /\ [](screen.results = results_calculated)
    /\ [](\A k \in 1..Len(invoked) : float_cmp(invoked[k].target, FloatZero) > 0)

\* a rejected click after a search that stored results: the results are still
\* stored, results_calculated is false and the error is on the screen
C8_Witness ==
    /\ screen.message # ""
    /\ ~results_calculated
    /\ Len(series_results) > 0
    /\ ~screen.results

\* C10: after a successful search the cards of a mode are the first
\* min(len(results), num_to_display) entries of its ranked list, in rank order,
\* and 'Show More' is offered for the mode exactly when
\* len(results) > num_to_display; a click raises num_to_display by 5 and leaves
\* the stored lists as they are; a successful search sets num_to_display to
\* the sidebar setting; and unless searches go on for ever, clicking the
\* offered buttons ends with every result displayed and no button offered.
C10_PaginationShowsEverything ==
    /\ [](results_calculated =>
             /\ screen.series.cards
                   = SubSeq(series_results, 1, Min(Len(series_results), num_to_display))
             /\ screen.parallel.cards
                   = SubSeq(parallel_results, 1, Min(Len(parallel_results), num_to_display))
             /\ screen.series.more <=> Len(series_results) > num_to_display
             /\ screen.parallel.more <=> Len(parallel_results) > num_to_display)
    /\ [][(ClickShowMore("series") \/ ClickShowMore("parallel")) =>
              /\ num_to_display' = num_to_display + 5
              /\ series_results' = series_results
              /\ parallel_results' = parallel_results]_vars
    /\ [][(ClickFind /\ results_calculated') =>
              num_to_display' = num_to_display_setting]_vars
    /\ \/ []<><<ClickFind>>_vars
       \/ <>[](/\ ~screen.series.more
               /\ ~screen.parallel.more
               /\ results_calculated =>
                     /\ screen.series.cards = series_results
                     /\ screen.parallel.cards = parallel_results)

\* a page that shows every result after two clicks on 'Show More'
C10_Witness ==
    /\ results_calculated
    /\ num_to_display = num_to_display_setting + 10
    /\ Len(series_results) > num_to_display_setting + 5
    /\ screen.series.cards = series_results
    /\ ~screen.series.more

(***************************************************************************)
(* Single calls of the functions, on arguments drawn from bounded sets.    *)
(* The page stays as it is first rendered.                                 *)
(***************************************************************************)
page_vars ==
    <<STANDARD_RESISTORS, session_vars, widget_vars, screen, invoked, tabulated>>

Modes == {"series", "parallel"}

\* the non-decreasing tuples of 1 to n values of pool
CombosUpTo(pool, n) ==
    UNION {set(combinations_with_replacement(pool, k)) : k \in 1..n}

(***************************************************************************)
(* calculate_combination_value on the combinations of up to MaxCalcLen of  *)
(* the first CalcBound values of the table.                                *)
(***************************************************************************)
CalcBound == 35

MaxCalcLen == 2

CalcCalls ==
    {[fn |-> "calculate_combination_value", resistors |-> c, mode |-> m] :
        c \in CombosUpTo(SubSeq(StandardResistorsBuilt, 1, CalcBound), MaxCalcLen),
        m \in Modes}

InitCalc ==
    /\ PageInit
    /\ tabulated = <<>>
    /\ pc = "call"
    /\ args \in CalcCalls
    /\ ret = NoCall

CallCalculate ==
    /\ pc = "call"
    /\ args.fn = "calculate_combination_value"
    /\ ret' = calculate_combination_value(args.resistors, args.mode)
    /\ pc' = "return"
    /\ UNCHANGED <<page_vars, args>>

NextCalc == CallCalculate

SpecCalc == InitCalc /\ [][NextCalc]_vars

\* C5: for every non-empty combination c of positive magnitudes the series
\* value is at least max(c) and the parallel value at most min(c), and for a
\* combination of size 1 both modes return exactly c[0].
C5_EvaluateBounds ==
    (pc = "return" /\ args.fn = "calculate_combination_value") =>
        LET c == args.resistors
        IN  /\ args.mode = "series" =>
                  \A i \in 1..Len(c) : float_cmp(ret, float(c[i])) >= 0
            /\ args.mode = "parallel" =>
                  \A i \in 1..Len(c) : float_cmp(ret, float(c[i])) <= 0
            /\ Len(c) = 1 => ret = float(c[1])

(***************************************************************************)
(* find_combinations on targets and tolerances drawn from bounded sets,    *)
(* in both modes and with every option of 'Number of Resistors'.           *)
(***************************************************************************)
\* the targets, as fractions: 0, 12, 20, 23.4375, 37
FindTargets == {<<0, 1>>, <<12, 1>>, <<20, 1>>, <<375, 16>>, <<37, 1>>}

\* the slider steps of the tolerances: 10.0, 15.2 and 20.0 percent
FindSliderSteps == {100, 152, 200}

CountOptions == {Automatic} \cup (1..MAX_RESISTORS_IN_COMBO)

FindCalls ==
    {[fn |-> "find_combinations", target |-> float_div(float(t[1]), float(t[2])),
      tolerance |-> float_div(slider_value(p), float(100)), mode |-> m,
      num_resistors_option |-> c] :
        t \in FindTargets, p \in FindSliderSteps, m \in Modes, c \in CountOptions}

InitFind ==
    /\ PageInit
    /\ tabulated = <<>>
    /\ pc = "call"
    /\ args \in FindCalls
    /\ ret = NoCall

\* list(find_combinations(...))
CallFindCombinations ==
    /\ pc = "call"
    /\ args.fn = "find_combinations"
    /\ ret' = find_combinations(SearchedTable, args.target, args.tolerance, args.mode,
                                args.num_resistors_option)
    /\ pc' = "return"
    /\ UNCHANGED <<page_vars, args>>

NextFind == CallFindCombinations

SpecFind == InitFind /\ [][NextFind]_vars

\* the claims' condition on a tuple: |value - target| / target <= tolerance, with
\* value the equivalent resistance of the tuple in the mode
ErrorWithin(combo, mode, target, tolerance) ==
    float_cmp(float_div(float_abs_sub(calculate_combination_value(combo, mode), target),
                        target),
              tolerance) <= 0

ReturnedFromFind == pc = "return" /\ args.fn = "find_combinations"

\* the tuples of the allowed sizes over a pool
TuplesOver(pool, num_resistors_option_) ==
    set(CandidatesFrom(pool, count_range(num_resistors_option_), 1))

\* C1: for a target > 0, find_combinations emits a tuple of its candidate pool
\* if and only if |value - target| / target <= tolerance; the comparison is
\* inclusive, and no tuple with a larger relative error is emitted.
C1_EmitsIffWithinTolerance ==
    (ReturnedFromFind /\ float_cmp(args.target, FloatZero) > 0) =>
        LET emitted == set(ret)
        IN  \A combo \in TuplesOver(search_space(SearchedTable, args.target,
                                                 args.tolerance, args.mode),
                                    args.num_resistors_option) :
                combo \in emitted
                    <=> ErrorWithin(combo, args.mode, args.target, args.tolerance)

\* a call that emitted a tuple whose relative error equals the tolerance, and
\* left out another tuple of the pool
C1_Witness ==
    /\ ReturnedFromFind
    /\ \E k \in 1..Len(ret) :
          float_div(float_abs_sub(calculate_combination_value(ret[k], args.mode),
                                  args.target), args.target) = args.tolerance
    /\ \E combo \in TuplesOver(search_space(SearchedTable, args.target,
                                            args.tolerance, args.mode),
                               args.num_resistors_option) : combo \notin set(ret)

\* the number of elements of the tuple xs equal to v
Occurrences(xs, v) == Cardinality({i \in 1..Len(xs) : xs[i] = v})

\* xs and ys are the same multiset of values
SameMultiset(xs, ys) ==
    /\ Len(xs) = Len(ys)
    /\ \A i \in 1..Len(xs) : Occurrences(xs, xs[i]) = Occurrences(ys, xs[i])

\* C7: every tuple find_combinations emits is non-decreasing and no multiset
\* is emitted twice in a call; with "Automatic" the sizes are those of 1..4
\* (MAX_RESISTORS_IN_COMBO), visited in increasing order, and with an explicit
\* size n every emitted tuple has n elements.
C7_CanonicalTuples ==
    ReturnedFromFind =>
        /\ \A k \in 1..Len(ret) : \A i \in 1..(Len(ret[k]) - 1) : ret[k][i] <= ret[k][i + 1]
        /\ \A j, k \in 1..Len(ret) : j # k => ~SameMultiset(ret[j], ret[k])
        /\ \A j, k \in 1..Len(ret) : j < k => Len(ret[j]) <= Len(ret[k])
        /\ IF args.num_resistors_option = Automatic
           THEN /\ count_range(args.num_resistors_option) = <<1, 2, 3, 4>>
                /\ \A k \in 1..Len(ret) : Len(ret[k]) \in 1..MAX_RESISTORS_IN_COMBO
           ELSE \A k \in 1..Len(ret) : Len(ret[k]) = args.num_resistors_option

\* an "Automatic" call that emitted tuples of three sizes, one of them with a
\* repeated value
C7_Witness ==
    /\ ReturnedFromFind
    /\ args.num_resistors_option = Automatic
    /\ Cardinality({Len(ret[k]) : k \in 1..Len(ret)}) >= 3
    /\ \E k \in 1..Len(ret) : Len(ret[k]) >= 2 /\ ret[k][1] = ret[k][2]

\* C9: in series mode the tuples emitted from the restricted pool
\* {r in table : r <= target * (1 + tolerance)} are those the tolerance filter
\* keeps of all non-decreasing tuples of the allowed sizes over the full table;
\* in parallel mode the pool is the full table.
C9_PoolRestrictionLosesNothing ==
    (ReturnedFromFind /\ float_cmp(args.target, FloatZero) > 0) =>
        /\ args.mode = "series" =>
              set(ret) = {combo \in TuplesOver(SearchedTable, args.num_resistors_option) :
                             ErrorWithin(combo, args.mode, args.target, args.tolerance)}
        /\ args.mode = "parallel" =>
              search_space(SearchedTable, args.target, args.tolerance, args.mode)
                  = SearchedTable

(***************************************************************************)
(* process_results on lists of up to MaxCombos tuples, among them tuples   *)
(* that are permutations of each other, tuples with the same value and     *)
(* repeated tuples.                                                        *)
(***************************************************************************)
MaxCombos == 3

RankTuples == {<<22>>, <<10, 12>>, <<12, 10>>, <<27>>, <<10, 15>>}

RankTargets == {float(22)}

ListsUpTo(S, n) == UNION {{<<>> \o f : f \in [1..k -> S]} : k \in 0..n}

RankCalls ==
    {[fn |-> "process_results", combos |-> cs, mode |-> m, target_val |-> t] :
        cs \in ListsUpTo(RankTuples, MaxCombos), m \in Modes, t \in RankTargets}

InitRank ==
    /\ PageInit
    /\ tabulated = <<>>
    /\ pc = "call"
    /\ args \in RankCalls
    /\ ret = NoCall

\* process_results(combos, mode), the set yielding its elements in some order
CallProcessResults ==
    /\ pc = "call"
    /\ args.fn = "process_results"
    /\ \E order \in iteration_orders(set(args.combos)) :
          ret' = process_results(order, args.mode, args.target_val)
    /\ pc' = "return"
    /\ UNCHANGED <<page_vars, args>>

NextRank == CallProcessResults

SpecRank == InitRank /\ [][NextRank]_vars

ReturnedFromRank == pc = "return" /\ args.fn = "process_results"

C3_RankedListSorted ==
    ReturnedFromRank =>
        /\ \A k \in 1..(Len(ret) - 1) :
              \/ float_cmp(ret[k].error, ret[k + 1].error) < 0
              \/ /\ ret[k].error = ret[k + 1].error
                 /\ Len(ret[k].combo) <= Len(ret[k + 1].combo)
        /\ \A k \in 1..Len(ret) :
              LET value == calculate_combination_value(ret[k].combo, args.mode)
              IN  /\ ret[k].value = value
                  /\ ret[k].error =
                         float_mul(float_div(float_abs_sub(value, args.target_val),
                                             args.target_val), float(100))

\* a returned list with two entries of equal error and different sizes and an
\* entry of larger error behind them
C3_Witness ==
    /\ ReturnedFromRank
    /\ Len(ret) >= 3
    /\ ret[1].error = ret[2].error
    /\ Len(ret[1].combo) < Len(ret[2].combo)
    /\ float_cmp(ret[2].error, ret[3].error) < 0

(***************************************************************************)
(* The search run twice on the same request: find_combinations followed by *)
(* process_results, as the handler composes them for one mode.             *)
(***************************************************************************)
RunTargets == {float(20), float(22), float(37)}

\* the slider steps of the tolerances: 0.1 and 10.0 percent
RunSliderSteps == {1, 100}

RunCalls ==
    {[fn |-> "search", target_val |-> t,
      tolerance |-> float_div(slider_value(p), float(100)), mode |-> m,
      num_resistors_option |-> c] :
        t \in RunTargets, p \in RunSliderSteps, m \in Modes, c \in {Automatic, 1, 2}}

InitRuns ==
    /\ PageInit
    /\ tabulated = <<>>
    /\ pc = "call"
    /\ args \in RunCalls
    /\ ret = <<>>

\* process_results(list(find_combinations(target_val, tolerance, mode,
\* num_resistors_option)), mode); ret collects what the runs return
RunSearchOnce ==
    /\ pc \in {"call", "again"}
    /\ args.fn = "search"
    /\ \E outcome \in search_outcomes(SearchedTable, args.target_val, args.tolerance,
                                      args.mode, args.num_resistors_option) :
          ret' = Append(ret, outcome)
    /\ pc' = IF pc = "call" THEN "again" ELSE "return"
    /\ UNCHANGED <<page_vars, args>>

NextRuns == RunSearchOnce

SpecRuns == InitRuns /\ [][NextRuns]_vars

=============================================================================
